---- MODULE Spec2Model ----
(***************************************************************************)
(* Model of prometheus_kafka_consumer_group_exporter/__init__.py: the wire *)
(* decoder (read_short .. parse_value), the metric store (update_gauge,    *)
(* increment_counter), the topology tracker (fetch_topics, update_topics), *)
(* the highwater poller (fetch_highwater, update_highwater), the message   *)
(* loop of main and its shutdown.  SpecConsumer, SpecPoller and            *)
(* SpecShutdown run main; SpecStore and SpecDecoder apply the metric store *)
(* and the wire decoder to inputs of their own.                            *)
(*                                                                         *)
(* Python values: a bytes object is a sequence of 0..255, a str decoded    *)
(* from the wire is the sequence of its code points, a tuple is a tuple    *)
(* (Python index i is TLA+ index i + 1), a dict that the code iterates is  *)
(* a sequence of <<key, value>> pairs in insertion order, a dict that is   *)
(* only indexed is a function.  A call that can raise yields a record      *)
(* [exc, val]: exc = "" when it returned val, else the exception's name.   *)
(***************************************************************************)
EXTENDS Integers, Sequences, FiniteSets, Bags, TLC

VARIABLES
    pc,            \* where main is: "fetch_topics" (l.236), "fetch_highwater" (l.237), "loop" (l.240-272), "exited" (sys.exit), "crashed" (uncaught exception)
    exit_status,   \* argument of sys.exit, -1 while the process runs or when it died otherwise
    error,         \* name of the exception that left main uncaught, "" if none
    log,           \* the last logging.info / logging.exception message of interest
    gauges,        \* module global gauges (l.17): metric name -> Gauge
    counters,      \* module global counters (l.18): metric name -> Counter
    topics,        \* module global topics (l.19), the Assignment Map: ordered dict
    highwater,     \* module global highwater (l.20), the Highwater Table
    now_time,      \* now_time of main (l.234)
    clock,         \* the wall clock, in the spec's time units
    tasks,         \* the client's delayed tasks (client.schedule): bag of <<task, due time>>
    inflight,      \* requests sent whose future is pending, with the callback added to it
    config,        \* client.config, fixed when the consumer is constructed (l.103-110)
    consumed,      \* number of messages the loop has taken from the consumer
    event,         \* history: what the last step did
    calls,         \* history: number of invocations so far of each periodic task
    cycle,         \* history: the last fetch_highwater invocation (map seen, requests sent, raised)
    written        \* history: what SetGauge and IncrementCounter have written to the metric store, series by series

vars == <<pc, exit_status, error, log, gauges, counters, topics, highwater,
          now_time, clock, tasks, inflight, config, consumed, event, calls, cycle,
          written>>

----------------------------------------------------------------------------
(* Bounds of the model *)

\* messages the loop consumes in one run
MaxMessages == 2

\* the clock stops here
MaxTime == 35

\* the clock advances in steps of this many time units
TickStep == 5

\* a scheduled task runs only while at most this many requests are pending
MaxInflight == 0

\* calls made to the metric store when it is driven directly
MaxOps == 3

----------------------------------------------------------------------------
(* Python helpers *)

None == << >>

\* bool(x) for a bytes object, a tuple or None (l.250, l.252)
Truthy(x) == x # << >>

Returned(v) == [exc |-> "", val |-> v]

Raised(e) == [exc |-> e, val |-> None]

Min(a, b) == IF a < b THEN a ELSE b

Max(a, b) == IF a > b THEN a ELSE b

\* s[n:]
PySliceFrom(s, n) ==
    LET start == IF n < 0 THEN Max(Len(s) + n, 0) ELSE Min(n, Len(s))
    IN  SubSeq(s, start + 1, Len(s))

\* s[:n]
PySliceTo(s, n) ==
    LET stop == IF n < 0 THEN Max(Len(s) + n, 0) ELSE Min(n, Len(s))
    IN  SubSeq(s, 1, stop)

\* d[k] = v on a dict that is only indexed
Put(f, k, v) == [x \in (DOMAIN f) \cup {k} |-> IF x = k THEN v ELSE f[x]]

----------------------------------------------------------------------------
(* Wire decoder, l.116-157 *)

RECURSIVE Unsigned(_)
Unsigned(bs) ==
    IF bs = << >> THEN 0
    ELSE Unsigned(SubSeq(bs, 1, Len(bs) - 1)) * 256 + bs[Len(bs)]

\* big-endian two's complement value of a byte string
Signed(bs) ==
    IF bs[1] >= 128
    THEN -(Unsigned([i \in 1..Len(bs) |-> 255 - bs[i]]) + 1)
    ELSE Unsigned(bs)

\* struct.unpack_from('>h' | '>i' | '>q', bytes)[0], width = 2 | 4 | 8
unpack_from(width, bytes) ==
    IF Len(bytes) < width
    THEN Raised("struct.error")
    ELSE Returned(Signed(SubSeq(bytes, 1, width)))

Cont(b) == b >= 128 /\ b <= 191

\* length of the well-formed UTF-8 character at the head of bs, 0 if ill-formed
Utf8Width(bs) ==
    LET b1 == bs[1]
        n == Len(bs)
    IN  IF b1 < 128 THEN 1
        ELSE IF b1 >= 194 /\ b1 <= 223
        THEN IF n >= 2 /\ Cont(bs[2]) THEN 2 ELSE 0
        ELSE IF b1 >= 224 /\ b1 <= 239
        THEN IF /\ n >= 3 /\ Cont(bs[2]) /\ Cont(bs[3])
                /\ (b1 = 224 => bs[2] >= 160)
                /\ (b1 = 237 => bs[2] <= 159)
             THEN 3 ELSE 0
        ELSE IF b1 >= 240 /\ b1 <= 244
        THEN IF /\ n >= 4 /\ Cont(bs[2]) /\ Cont(bs[3]) /\ Cont(bs[4])
                /\ (b1 = 240 => bs[2] >= 144)
                /\ (b1 = 244 => bs[2] <= 143)
             THEN 4 ELSE 0
        ELSE 0

Utf8CodePoint(bs, w) ==
    IF w = 1 THEN bs[1]
    ELSE IF w = 2 THEN (bs[1] - 192) * 64 + (bs[2] - 128)
    ELSE IF w = 3 THEN (bs[1] - 224) * 4096 + (bs[2] - 128) * 64 + (bs[3] - 128)
    ELSE (bs[1] - 240) * 262144 + (bs[2] - 128) * 4096 + (bs[3] - 128) * 64 + (bs[4] - 128)

\* every byte taken for one character
decode_latin1(bs) == Returned(bs)

\* bytes.decode('utf-8')
RECURSIVE decode_utf8(_)
decode_utf8(bs) ==
    IF bs = << >> THEN Returned(<< >>)
    ELSE LET w == Utf8Width(bs)
         IN  IF w = 0 THEN Raised("UnicodeDecodeError")
             ELSE LET rest == decode_utf8(SubSeq(bs, w + 1, Len(bs)))
                  IN  IF rest.exc # "" THEN rest
                      ELSE Returned(<<Utf8CodePoint(bs, w)>> \o rest.val)

read_short(bytes) ==
    LET num == unpack_from(2, bytes)
    IN  IF num.exc # "" THEN num
        ELSE Returned(<<num.val, PySliceFrom(bytes, 2)>>)

read_int(bytes) ==
    LET num == unpack_from(4, bytes)
    IN  IF num.exc # "" THEN num
        ELSE Returned(<<num.val, PySliceFrom(bytes, 4)>>)

\* '>i' in place of '>q'
read_long_long_as_int(bytes) ==
    LET num == unpack_from(4, bytes)
    IN  IF num.exc # "" THEN num
        ELSE Returned(<<num.val, PySliceFrom(bytes, 8)>>)

read_long_long(bytes) ==
    LET num == unpack_from(8, bytes)
    IN  IF num.exc # "" THEN num
        ELSE Returned(<<num.val, PySliceFrom(bytes, 8)>>)

read_string(bytes) ==
    LET r == read_short(bytes)
    IN  IF r.exc # "" THEN r
        ELSE LET length == r.val[1]
                 remaining == r.val[2]
                 string == decode_utf8(PySliceTo(remaining, length))
             IN  IF string.exc # "" THEN string
                 ELSE Returned(<<string.val, PySliceFrom(remaining, length)>>)

parse_key(bytes) ==
    LET v == read_short(bytes)
    IN  IF v.exc # "" THEN v
        ELSE IF v.val[1] = 1 \/ v.val[1] = 0
        THEN LET g == read_string(v.val[2])
             IN  IF g.exc # "" THEN g
                 ELSE LET t == read_string(g.val[2])
                      IN  IF t.exc # "" THEN t
                          ELSE LET p == read_int(t.val[2])
                               IN  IF p.exc # "" THEN p
                                   ELSE Returned(<<v.val[1], g.val[1], t.val[1], p.val[1]>>)
        ELSE Returned(None)

\* "else" in place of "elif version == 1": every version but 0 read as version 1
parse_value_else_version_1(bytes) ==
    LET v == read_short(bytes)
    IN  IF v.exc # "" THEN v
        ELSE LET o == read_long_long(v.val[2])
             IN  IF o.exc # "" THEN o
                 ELSE LET m == read_string(o.val[2])
                      IN  IF m.exc # "" THEN m
                          ELSE LET c == read_long_long(m.val[2])
                               IN  IF c.exc # "" THEN c
                                   ELSE IF v.val[1] = 0
                                   THEN Returned(<<v.val[1], o.val[1], m.val[1], c.val[1]>>)
                                   ELSE LET e == read_long_long(c.val[2])
                                        IN  IF e.exc # "" THEN e
                                            ELSE Returned(<<v.val[1], o.val[1], m.val[1],
                                                            c.val[1], e.val[1]>>)

\* the expire timestamp of version 1 read only when it is there
parse_value_optional_expire(bytes) ==
    LET v == read_short(bytes)
    IN  IF v.exc # "" THEN v
        ELSE IF v.val[1] \notin {0, 1} THEN Returned(None)
        ELSE LET o == read_long_long(v.val[2])
             IN  IF o.exc # "" THEN o
                 ELSE LET m == read_string(o.val[2])
                      IN  IF m.exc # "" THEN m
                          ELSE LET c == read_long_long(m.val[2])
                               IN  IF c.exc # "" THEN c
                                   ELSE LET e == read_long_long(c.val[2])
                                        IN  IF v.val[1] = 0 \/ e.exc # ""
                                            THEN Returned(<<v.val[1], o.val[1], m.val[1],
                                                            c.val[1]>>)
                                            ELSE Returned(<<v.val[1], o.val[1], m.val[1],
                                                            c.val[1], e.val[1]>>)

parse_value(bytes) ==
    LET v == read_short(bytes)
    IN  IF v.exc # "" THEN v
        ELSE IF v.val[1] = 0
        THEN LET o == read_long_long(v.val[2])
             IN  IF o.exc # "" THEN o
                 ELSE LET m == read_string(o.val[2])
                      IN  IF m.exc # "" THEN m
                          ELSE LET ts == read_long_long(m.val[2])
                               IN  IF ts.exc # "" THEN ts
                                   ELSE Returned(<<v.val[1], o.val[1], m.val[1], ts.val[1]>>)
        ELSE IF v.val[1] = 1
        THEN LET o == read_long_long(v.val[2])
             IN  IF o.exc # "" THEN o
                 ELSE LET m == read_string(o.val[2])
                      IN  IF m.exc # "" THEN m
                          ELSE LET c == read_long_long(m.val[2])
                               IN  IF c.exc # "" THEN c
                                   ELSE LET e == read_long_long(c.val[2])
                                        IN  IF e.exc # "" THEN e
                                            ELSE Returned(<<v.val[1], o.val[1], m.val[1], c.val[1], e.val[1]>>)
        ELSE Returned(None)

----------------------------------------------------------------------------
(* Metric store, l.15-50.  A Gauge or Counter is [labelnames, samples]:    *)
(* samples maps a tuple of label values to the child's value.  As in       *)
(* prometheus_client, labels() raises ValueError when the number of its    *)
(* values differs from the number of label names, and set() or inc() on a *)
(* metric declared with label names raises.                                *)

METRIC_PREFIX == "kafka_consumer_group_"

Metric(label_keys) == [labelnames |-> label_keys, samples |-> << >>]

LabelKeys(label_dict) == [i \in 1..Len(label_dict) |-> label_dict[i][1]]

LabelValues(label_dict) == [i \in 1..Len(label_dict) |-> label_dict[i][2]]

\* value of a child, 0 for a counter child created by labels()
Sample(metric, label_values) ==
    IF label_values \in DOMAIN metric.samples THEN metric.samples[label_values] ELSE 0

\* a gauge child that keeps the first value set
update_gauge_first_wins(gs, metric_name, label_dict, value) ==
    LET label_keys == LabelKeys(label_dict)
        label_values == LabelValues(label_dict)
        reg == IF metric_name \notin DOMAIN gs
               THEN Put(gs, metric_name, Metric(label_keys))
               ELSE gs
        gauge == reg[metric_name]
    IN  IF Len(label_values) # Len(gauge.labelnames)
        THEN [exc |-> "ValueError", val |-> reg]
        ELSE IF label_values \in DOMAIN gauge.samples
        THEN [exc |-> "", val |-> reg]
        ELSE [exc |-> "",
              val |-> [reg EXCEPT ![metric_name].samples = Put(@, label_values, value)]]

\* update_gauge on registry gs: [exc, val] with val the registry afterwards
update_gauge(gs, metric_name, label_dict, value) ==
    LET label_keys == LabelKeys(label_dict)
        label_values == LabelValues(label_dict)
        reg == IF metric_name \notin DOMAIN gs
               THEN Put(gs, metric_name, Metric(label_keys))
               ELSE gs
        gauge == reg[metric_name]
    IN  IF label_values # << >>
        THEN IF Len(label_values) # Len(gauge.labelnames)
             THEN [exc |-> "ValueError", val |-> reg]
             ELSE [exc |-> "",
                   val |-> [reg EXCEPT ![metric_name].samples = Put(@, label_values, value)]]
        ELSE IF gauge.labelnames # << >>
             THEN [exc |-> "ValueError", val |-> reg]
             ELSE [exc |-> "",
                   val |-> [reg EXCEPT ![metric_name].samples = Put(@, << >>, value)]]

\* increment_counter on registry cs: [exc, val] with val the registry afterwards
increment_counter(cs, metric_name, label_dict) ==
    LET label_keys == LabelKeys(label_dict)
        label_values == LabelValues(label_dict)
        reg == IF metric_name \notin DOMAIN cs
               THEN Put(cs, metric_name, Metric(label_keys))
               ELSE cs
        counter == reg[metric_name]
    IN  IF label_values # << >>
        THEN IF Len(label_values) # Len(counter.labelnames)
             THEN [exc |-> "ValueError", val |-> reg]
             ELSE [exc |-> "",
                   val |-> [reg EXCEPT ![metric_name].samples =
                                Put(@, label_values, Sample(counter, label_values) + 1)]]
        ELSE IF counter.labelnames # << >>
             THEN [exc |-> "ValueError", val |-> reg]
             ELSE [exc |-> "",
                   val |-> [reg EXCEPT ![metric_name].samples =
                                Put(@, << >>, Sample(counter, << >>) + 1)]]

\* the value a scrape shows for a series, None when the series does not exist
Series(registry, metric_name, label_values) ==
    IF metric_name \in DOMAIN registry /\ label_values \in DOMAIN registry[metric_name].samples
    THEN <<registry[metric_name].samples[label_values]>>
    ELSE None

----------------------------------------------------------------------------
(* Message loop of main, l.241-272 *)

\* l.242-248: the exporter's read position
exporter_offset(gs, message) ==
    update_gauge(gs, METRIC_PREFIX \o "exporter_offset",
                 << <<"partition", message.partition>> >>, message.offset)

\* l.255-272 once key and value are parsed: [exc, gauges, counters];
\* value[1] with value None raises TypeError (l.262)
publish_commit(gs, cs, key, value) ==
    IF value = None
    THEN [exc |-> "TypeError", gauges |-> gs, counters |-> cs]
    ELSE LET labels == << <<"group", key[2]>>, <<"topic", key[3]>>, <<"partition", key[4]>> >>
             g == update_gauge(gs, METRIC_PREFIX \o "offset", labels, value[2])
             c == increment_counter(cs, METRIC_PREFIX \o "commits", labels)
         IN  IF g.exc # ""
             THEN [exc |-> g.exc, gauges |-> g.val, counters |-> cs]
             ELSE [exc |-> c.exc, gauges |-> g.val, counters |-> c.val]

\* l.250-272: decode the message and publish the commit: [exc, gauges, counters]
decode_and_publish(gs, cs, message) ==
    IF ~(Truthy(message.key) /\ Truthy(message.value))
    THEN [exc |-> "", gauges |-> gs, counters |-> cs]
    ELSE LET key == parse_key(message.key)
         IN  IF key.exc # "" THEN [exc |-> key.exc, gauges |-> gs, counters |-> cs]
             ELSE IF ~Truthy(key.val)
             THEN [exc |-> "", gauges |-> gs, counters |-> cs]
             ELSE LET value == parse_value(message.value)
                  IN  IF value.exc # ""
                      THEN [exc |-> value.exc, gauges |-> gs, counters |-> cs]
                      ELSE publish_commit(gs, cs, key.val, value.val)

\* the read position published only after the message is decoded
process_message_position_last(gs, cs, message) ==
    LET r == decode_and_publish(gs, cs, message)
        g == exporter_offset(r.gauges, message)
    IN  IF r.exc # "" THEN r
        ELSE [exc |-> g.exc, gauges |-> g.val, counters |-> r.counters]

\* one pass of the body of "for message in consumer", l.242-272:
\* [exc, gauges, counters]
process_message(gs, cs, message) ==
    LET g1 == exporter_offset(gs, message)
    IN  IF g1.exc # "" THEN [exc |-> g1.exc, gauges |-> g1.val, counters |-> cs]
        ELSE decode_and_publish(g1.val, cs, message)

----------------------------------------------------------------------------
(* Ordered dicts: sequences of <<key, value>> pairs with distinct keys *)

DictHas(d, k) == \E i \in 1..Len(d) : d[i][1] = k

DictGet(d, k) == d[CHOOSE i \in 1..Len(d) : d[i][1] = k][2]

\* d[k] = v: a new key goes last, an existing key keeps its place
DictPut(d, k, v) ==
    IF DictHas(d, k)
    THEN [i \in 1..Len(d) |-> IF d[i][1] = k THEN <<k, v>> ELSE d[i]]
    ELSE Append(d, <<k, v>>)

\* {k: v for (k, v) in pairs}
RECURSIVE DictOf(_)
DictOf(pairs) ==
    IF pairs = << >> THEN << >>
    ELSE DictPut(DictOf(SubSeq(pairs, 1, Len(pairs) - 1)),
                 pairs[Len(pairs)][1], pairs[Len(pairs)][2])

RECURSIVE Flatten(_)
Flatten(ss) == IF ss = << >> THEN << >> ELSE ss[1] \o Flatten(Tail(ss))

----------------------------------------------------------------------------
(* Topology tracker, l.159-170 and l.190-202 *)

\* the period of fetch_topics (l.192)
TopicsPeriod == 30

\* the next refresh counted from the time the task runs at
topics_next_time_from_clock(this_time) == clock + TopicsPeriod

\* next_time of fetch_topics (l.192)
topics_next_time(this_time) == this_time + TopicsPeriod

\* the response merged into the previous map
update_topics_merged(old, api_version, metadata) ==
    LET k == IF api_version = 0 THEN 3 ELSE 4
    IN  DictOf(old \o [i \in 1..Len(metadata.topics) |->
                          LET t == metadata.topics[i]
                          IN  <<t[2], DictOf([j \in 1..Len(t[k]) |-> <<t[k][j][2], t[k][j][3]>>])>>])

\* update_topics: the new value of the global topics.  A topic of a v0
\* response is (error_code, topic, partitions), of a v1 response
\* (error_code, topic, is_internal, partitions); a partition is
\* (error_code, partition, leader, replicas, isr).
update_topics(old, api_version, metadata) ==
    IF api_version = 0
    THEN DictOf([i \in 1..Len(metadata.topics) |->
                    LET t == metadata.topics[i]
                    IN  <<t[2], DictOf([j \in 1..Len(t[3]) |-> <<t[3][j][2], t[3][j][3]>>])>>])
    ELSE IF api_version = 1
    THEN DictOf([i \in 1..Len(metadata.topics) |->
                    LET t == metadata.topics[i]
                    IN  <<t[2], DictOf([j \in 1..Len(t[4]) |-> <<t[4][j][2], t[4][j][3]>>])>>])
    ELSE old

\* 0 if client.config['api_version'] < (0, 10) else 1 (l.194)
MetadataApiVersion(config_api_version) ==
    IF \/ config_api_version[1] < 0
       \/ (config_api_version[1] = 0 /\ config_api_version[2] < 10)
    THEN 0 ELSE 1

----------------------------------------------------------------------------
(* Highwater poller, l.172-188 and l.204-232 *)

\* the period of fetch_highwater (l.206)
HighwaterPeriod == 10

\* the highwater poll rescheduled with the period of the topology refresh
highwater_next_time_as_topics(this_time) == this_time + TopicsPeriod

\* the next highwater poll scheduled at the time of this one
highwater_next_time_at_once(this_time) == this_time

\* next_time of fetch_highwater (l.206)
highwater_next_time(this_time) == this_time + HighwaterPeriod

\* OffsetResetStrategy.LATEST
LATEST == -1

\* the (topic, partition, leader) triples in the order l.211-212 visits them
Assignments(tps) ==
    Flatten([i \in 1..Len(tps) |->
                [j \in 1..Len(tps[i][2]) |-> <<tps[i][1], tps[i][2][j][1], tps[i][2][j][2]>>]])

\* nodes[leader][topic] = [partition] in place of append
AddAssignmentOverwriting(nodes, a) ==
    LET n1 == IF ~DictHas(nodes, a[3]) THEN DictPut(nodes, a[3], << >>) ELSE nodes
    IN  DictPut(n1, a[3], DictPut(DictGet(n1, a[3]), a[1], <<a[2]>>))

\* every partition filed under the first leader met
AddAssignmentUnderFirstLeader(nodes, a) ==
    LET topic == a[1]
        partition == a[2]
        leader == IF nodes = << >> THEN a[3] ELSE nodes[1][1]
        n1 == IF ~DictHas(nodes, leader) THEN DictPut(nodes, leader, << >>) ELSE nodes
        tm == DictGet(n1, leader)
        tm1 == IF ~DictHas(tm, topic) THEN DictPut(tm, topic, << >>) ELSE tm
    IN  DictPut(n1, leader, DictPut(tm1, topic, Append(DictGet(tm1, topic), partition)))

\* l.213-217 for one (topic, partition, leader)
AddAssignment(nodes, a) ==
    LET topic == a[1]
        partition == a[2]
        leader == a[3]
        n1 == IF ~DictHas(nodes, leader) THEN DictPut(nodes, leader, << >>) ELSE nodes
        tm == DictGet(n1, leader)
        tm1 == IF ~DictHas(tm, topic) THEN DictPut(tm, topic, << >>) ELSE tm
    IN  DictPut(n1, leader, DictPut(tm1, topic, Append(DictGet(tm1, topic), partition)))

RECURSIVE GroupByLeader(_)
GroupByLeader(as) ==
    IF as = << >> THEN << >>
    ELSE AddAssignment(GroupByLeader(SubSeq(as, 1, Len(as) - 1)), as[Len(as)])

\* the dict nodes of l.210-217
LeaderNodes(tps) == GroupByLeader(Assignments(tps))

\* OffsetRequest[0](-1, [(topic, [(partition, LATEST, 1) ...])]) (l.221-226)
OffsetRequest(topic, partitions) ==
    [name |-> "OffsetRequest", version |-> 0, replica_id |-> -1,
     topics |-> << <<topic, [k \in 1..Len(partitions) |-> <<partitions[k], LATEST, 1>>]>> >>]

\* the sends of l.219-228 in order: <<node, request>>
HighwaterRequests(tps) ==
    LET nodes == LeaderNodes(tps)
    IN  Flatten([i \in 1..Len(nodes) |->
                    [j \in 1..Len(nodes[i][2]) |->
                        <<nodes[i][1], OffsetRequest(nodes[i][2][j][1], nodes[i][2][j][2])>>]])

\* l.179-188 over the partitions of one topic of a response; offsets[0] of
\* an empty list raises IndexError and ends the callback
RECURSIVE UpdateHighwaterPartitions(_, _, _, _)
UpdateHighwaterPartitions(hw, gs, topic, partitions) ==
    IF partitions = << >> THEN [exc |-> "", highwater |-> hw, gauges |-> gs]
    ELSE LET partition == partitions[1][1]
             offsets == partitions[1][3]
         IN  IF offsets = << >>
             THEN [exc |-> "IndexError", highwater |-> hw, gauges |-> gs]
             ELSE LET hw1 == [hw EXCEPT ![topic] = Put(@, partition, offsets[1])]
                      g == update_gauge(gs, METRIC_PREFIX \o "highwater",
                                        << <<"topic", topic>>, <<"partition", partition>> >>,
                                        offsets[1])
                  IN  IF g.exc # ""
                      THEN [exc |-> g.exc, highwater |-> hw1, gauges |-> g.val]
                      ELSE UpdateHighwaterPartitions(hw1, g.val, topic, Tail(partitions))

\* highwater[topic] = {} for every topic of a response, known or not
RECURSIVE UpdateHighwaterTopicsFresh(_, _, _)
UpdateHighwaterTopicsFresh(hw, gs, response_topics) ==
    IF response_topics = << >> THEN [exc |-> "", highwater |-> hw, gauges |-> gs]
    ELSE LET topic == response_topics[1][1]
             hw1 == Put(hw, topic, << >>)
             r == UpdateHighwaterPartitions(hw1, gs, topic, response_topics[1][2])
         IN  IF r.exc # "" THEN r
             ELSE UpdateHighwaterTopicsFresh(r.highwater, r.gauges, Tail(response_topics))

\* update_highwater over response.topics: [exc, highwater, gauges]
RECURSIVE UpdateHighwaterTopics(_, _, _)
UpdateHighwaterTopics(hw, gs, response_topics) ==
    IF response_topics = << >> THEN [exc |-> "", highwater |-> hw, gauges |-> gs]
    ELSE LET topic == response_topics[1][1]
             hw1 == IF topic \notin DOMAIN hw THEN Put(hw, topic, << >>) ELSE hw
             r == UpdateHighwaterPartitions(hw1, gs, topic, response_topics[1][2])
         IN  IF r.exc # "" THEN r
             ELSE UpdateHighwaterTopics(r.highwater, r.gauges, Tail(response_topics))

\* the table rebuilt from the response alone
update_highwater_reset(hw, gs, offsets) == UpdateHighwaterTopics(<< >>, gs, offsets.topics)

update_highwater(hw, gs, offsets) == UpdateHighwaterTopics(hw, gs, offsets.topics)

----------------------------------------------------------------------------
(* Inputs: commit-topic messages.  The buffers are written by an encoder   *)
(* of the layout the decoder reads (2-byte version, 2-byte-length-prefixed *)
(* strings, 4-byte partition, 8-byte offset and timestamps, big-endian).   *)

RECURSIVE EncodeUnsigned(_, _)
EncodeUnsigned(n, width) ==
    IF width = 0 THEN << >>
    ELSE Append(EncodeUnsigned(n \div 256, width - 1), n % 256)

EncodeSigned(n, width) ==
    IF n >= 0 THEN EncodeUnsigned(n, width)
    ELSE [i \in 1..width |-> 255 - EncodeUnsigned(-n - 1, width)[i]]

\* the UTF-8 bytes of one code point
Utf8Bytes(cp) ==
    IF cp < 128 THEN <<cp>>
    ELSE IF cp < 2048 THEN <<192 + (cp \div 64), 128 + (cp % 64)>>
    ELSE IF cp < 65536
    THEN <<224 + (cp \div 4096), 128 + ((cp \div 64) % 64), 128 + (cp % 64)>>
    ELSE <<240 + (cp \div 262144), 128 + ((cp \div 4096) % 64),
           128 + ((cp \div 64) % 64), 128 + (cp % 64)>>

\* str.encode('utf-8') of a string given as its code points
RECURSIVE EncodeUtf8(_)
EncodeUtf8(str) ==
    IF str = << >> THEN << >> ELSE Utf8Bytes(str[1]) \o EncodeUtf8(Tail(str))

\* a string on the wire: the 2-byte length of its UTF-8 bytes, then the bytes
EncodeString(str) ==
    LET encoded == EncodeUtf8(str)
    IN  EncodeSigned(Len(encoded), 2) \o encoded

EncodeKey(version, group, topic, partition) ==
    EncodeSigned(version, 2) \o EncodeString(group) \o EncodeString(topic)
        \o EncodeSigned(partition, 4)

\* version 0 has no expire timestamp; any other version is laid out as version 1
EncodeValue(version, offset, metadata, commit_timestamp, expire_timestamp) ==
    EncodeSigned(version, 2) \o EncodeSigned(offset, 8) \o EncodeString(metadata)
        \o EncodeSigned(commit_timestamp, 8)
        \o (IF version = 0 THEN << >> ELSE EncodeSigned(expire_timestamp, 8))

ProperPrefixes(bytes) == {SubSeq(bytes, 1, n) : n \in 1..(Len(bytes) - 1)}

\* "g1", "t1", "m"
G1 == <<103, 49>>

T1 == <<116, 49>>

M == <<109>>

Versions == {0, 1, 2}

CommitPartitions == {0, 1}

CommitOffsets == {42, 7}

GoodKey == EncodeKey(1, G1, T1, 0)

GoodValue == EncodeValue(0, 42, << >>, 0, 0)

WellFormedKeys == {EncodeKey(v, G1, T1, p) : v \in Versions, p \in CommitPartitions}

WellFormedValues == {EncodeValue(v, o, << >>, 0, 1) : v \in Versions, o \in CommitOffsets}

\* a group id that is not UTF-8
BadUtf8Key == EncodeSigned(1, 2) \o EncodeSigned(1, 2) \o <<255>> \o EncodeString(T1)
                  \o EncodeSigned(0, 4)

TruncatedKeys == ProperPrefixes(GoodKey) \cup ProperPrefixes(EncodeKey(0, G1, T1, 1))

TruncatedValues ==
    ProperPrefixes(EncodeValue(1, 42, M, 0, 1)) \cup ProperPrefixes(EncodeValue(0, 7, M, 0, 0))

\* (partition, offset) of a message in the commit topic
Positions == {<<0, 5>>, <<0, 6>>, <<1, 5>>}

KeyValuePairs ==
    (WellFormedKeys \X WellFormedValues)
        \cup ((TruncatedKeys \cup {BadUtf8Key}) \X {GoodValue})
        \cup ({GoodKey} \X TruncatedValues)
        \cup {<<None, GoodValue>>, <<GoodKey, None>>, <<None, None>>}

Messages ==
    {[partition |-> pos[1], offset |-> pos[2], key |-> kv[1], value |-> kv[2]] :
        pos \in Positions, kv \in KeyValuePairs}

----------------------------------------------------------------------------
(* Inputs: the cluster *)

Nodes == {1, 2}

ClusterTopics == {"t1", "t2"}

ClusterPartitions == {0, 1}

\* time.time() at l.234 and client.config of a process
Startups == {[now_time |-> 0, config |-> [api_version |-> <<0, 9>>]],
             [now_time |-> 3, config |-> [api_version |-> <<0, 10>>]]}

\* topic -> partition -> leader, in the order a metadata response lists them
Assignment1 == << <<"t1", << <<0, 1>>, <<1, 2>> >> >> >>

Assignment2 == << <<"t1", << <<0, 1>> >> >>, <<"t2", << <<0, 1>> >> >> >>

Assignment3 == << <<"t2", << <<1, 2>>, <<0, 2>> >> >>, <<"t1", << <<1, 1>> >> >> >>

Assignment4 == << <<"t1", << >> >> >>

AssignmentMaps == {<< >>, Assignment1, Assignment2, Assignment3, Assignment4}

\* the MetadataResponse of the given version that carries an assignment
MetadataResponse(api_version, map) ==
    [topics |->
        [i \in 1..Len(map) |->
            LET partitions == [j \in 1..Len(map[i][2]) |->
                                  <<0, map[i][2][j][1], map[i][2][j][2],
                                    <<map[i][2][j][2]>>, <<map[i][2][j][2]>> >>]
            IN  IF api_version = 0
                THEN <<0, map[i][1], partitions>>
                ELSE <<0, map[i][1], FALSE, partitions>>]]

\* what a leader answers for one partition: an offset, or an error and no offset
HighwaterOffsets == {100, 200}

\* error code 6 is NOT_LEADER_FOR_PARTITION
PartitionAnswers == {<<0, <<o>>>> : o \in HighwaterOffsets} \cup {<<6, << >>>>}

\* the answers to a list of requested partitions: one entry
\* (partition, error_code, offsets) per partition, in the request's order
RECURSIVE PartitionEntries(_)
PartitionEntries(partitions) ==
    IF partitions = << >> THEN {<< >>}
    ELSE {<< <<partitions[1][1], answer[1], answer[2]>> >> \o rest :
             answer \in PartitionAnswers, rest \in PartitionEntries(Tail(partitions))}

\* the OffsetResponses a node can give to a request
OffsetResponses(request) ==
    {[topics |-> << <<request.topics[1][1], entries>> >>] :
        entries \in PartitionEntries(request.topics[1][2])}

----------------------------------------------------------------------------
(* The process *)

\* no call of the metric store yet: no gauge series set, no counter series
\* incremented, every call so far used its metric's label keys
NothingWritten == [gauges |-> << >>, counters |-> << >>, consistent |-> TRUE, calls |-> 0]

Init ==
    /\ pc = "fetch_topics"
    /\ exit_status = -1
    /\ error = ""
    /\ log = "Server started on port %s"
    /\ gauges = << >>
    /\ counters = << >>
    /\ topics = << >>
    /\ highwater = << >>
    /\ \E s \in Startups : now_time = s.now_time /\ config = s.config
    /\ clock = now_time
    /\ tasks = EmptyBag
    /\ inflight = EmptyBag
    /\ consumed = 0
    /\ event = [type |-> "init"]
    /\ calls = [fetch_topics |-> 0, fetch_highwater |-> 0]
    /\ cycle = [topics |-> << >>, sent |-> << >>, raised |-> FALSE]
    /\ written = NothingWritten

Running == pc \in {"fetch_topics", "fetch_highwater", "loop"}

RECURSIVE SeqToBag(_)
SeqToBag(ss) == IF ss = << >> THEN EmptyBag ELSE SetToBag({ss[1]}) (+) SeqToBag(Tail(ss))

\* client.schedule(partial(task, at), at)
schedule(queue, task, at) == queue (+) SetToBag({<<task, at>>})

\* fetch_topics(this_time), l.190-202; pending is the task queue it runs from.
\* The try block either sends the request to some node and adds the callback,
\* or raises before the callback is added; the finally block schedules.
fetch_topics(this_time, pending) ==
    LET next_time == topics_next_time(this_time)
        api_version == MetadataApiVersion(config.api_version)
        request == [name |-> "MetadataRequest", version |-> api_version, topics |-> None]
    IN  /\ \/ \E node \in Nodes :
                /\ inflight' = inflight (+) SetToBag({[node |-> node, request |-> request,
                                                       callback |-> <<"update_topics", api_version>>]})
                /\ log' = "Requesting topics and partition assignments"
                /\ event' = [type |-> "fetch_topics", this_time |-> this_time, raised |-> FALSE]
           \/ /\ inflight' = inflight
              /\ log' = "Error requesting topics and partition assignments"
              /\ event' = [type |-> "fetch_topics", this_time |-> this_time, raised |-> TRUE]
        /\ tasks' = schedule(pending, "fetch_topics", next_time)
        /\ calls' = [calls EXCEPT !.fetch_topics = @ + 1]
        /\ UNCHANGED <<written, exit_status, error, gauges, counters, topics, highwater, now_time,
                       clock, config, consumed, cycle>>

\* fetch_highwater(this_time), l.204-232; pending is the task queue it runs from.
\* sent is the number of sends done when the try block ends: all of them, or
\* fewer when building or sending the next request raises.
fetch_highwater(this_time, pending) ==
    LET next_time == highwater_next_time(this_time)
        requests == IF topics # << >> THEN HighwaterRequests(topics) ELSE << >>
    IN  /\ \E sent \in 0..Len(requests) :
                /\ inflight' = inflight (+)
                       SeqToBag([k \in 1..sent |->
                                    [node |-> requests[k][1], request |-> requests[k][2],
                                     callback |-> <<"update_highwater">>]])
                /\ cycle' = [topics |-> topics, sent |-> SubSeq(requests, 1, sent),
                             raised |-> sent < Len(requests)]
                /\ log' = IF sent < Len(requests) THEN "Error requesting high-water marks"
                          ELSE "Requesting high-water marks"
                /\ event' = [type |-> "fetch_highwater", this_time |-> this_time,
                             raised |-> sent < Len(requests)]
        /\ tasks' = schedule(pending, "fetch_highwater", next_time)
        /\ calls' = [calls EXCEPT !.fetch_highwater = @ + 1]
        /\ UNCHANGED <<written, exit_status, error, gauges, counters, topics, highwater, now_time,
                       clock, config, consumed>>

\* l.236
StartFetchTopics ==
    /\ pc = "fetch_topics"
    /\ fetch_topics(now_time, tasks)
    /\ pc' = "fetch_highwater"

\* l.237
StartFetchHighwater ==
    /\ pc = "fetch_highwater"
    /\ fetch_highwater(now_time, tasks)
    /\ pc' = "loop"

\* time passes
Tick ==
    /\ Running
    /\ clock + TickStep <= MaxTime
    /\ clock' = clock + TickStep
    /\ event' = [type |-> "tick"]
    /\ UNCHANGED <<written, pc, exit_status, error, log, gauges, counters, topics, highwater,
                   now_time, tasks, inflight, config, consumed, calls, cycle>>

\* the event loop, entered from the consumer's iterator, runs a due task
RunFetchTopics ==
    /\ pc = "loop"
    /\ BagCardinality(inflight) <= MaxInflight
    /\ \E task \in BagToSet(tasks) :
          /\ task[1] = "fetch_topics"
          /\ task[2] <= clock
          /\ fetch_topics(task[2], tasks (-) SetToBag({task}))
    /\ pc' = pc

RunFetchHighwater ==
    /\ pc = "loop"
    /\ BagCardinality(inflight) <= MaxInflight
    /\ \E task \in BagToSet(tasks) :
          /\ task[1] = "fetch_highwater"
          /\ task[2] <= clock
          /\ fetch_highwater(task[2], tasks (-) SetToBag({task}))
    /\ pc' = pc

\* the event loop delivers a metadata response: the future's callback
\* update_topics(api_version, metadata) runs
MetadataResponseArrives ==
    /\ pc = "loop"
    /\ \E r \in BagToSet(inflight) :
          /\ r.callback[1] = "update_topics"
          /\ \E map \in AssignmentMaps :
                LET metadata == MetadataResponse(r.request.version, map)
                IN  /\ topics' = update_topics(topics, r.callback[2], metadata)
                    /\ event' = [type |-> "update_topics", map |-> map,
                                 metadata |-> metadata, api_version |-> r.callback[2]]
          /\ inflight' = inflight (-) SetToBag({r})
    /\ log' = "Received topics and partition assignments"
    /\ UNCHANGED <<written, pc, exit_status, error, gauges, counters, highwater, now_time, clock,
                   tasks, config, consumed, calls, cycle>>

\* the event loop delivers an offset response: the future's callback
\* update_highwater(offsets) runs; the future logs an exception of a callback
\* and goes on
OffsetResponseArrives ==
    /\ pc = "loop"
    /\ \E r \in BagToSet(inflight) :
          /\ r.callback[1] = "update_highwater"
          /\ \E offsets \in OffsetResponses(r.request) :
                \E u \in {update_highwater(highwater, gauges, offsets)} :
                    /\ highwater' = u.highwater
                    /\ gauges' = u.gauges
                    /\ event' = [type |-> "update_highwater", offsets |-> offsets,
                                 exc |-> u.exc]
                    /\ log' = IF u.exc = "" THEN "Received high-water marks"
                              ELSE "Error processing callback"
          /\ inflight' = inflight (-) SetToBag({r})
    /\ UNCHANGED <<written, pc, exit_status, error, counters, topics, now_time, clock, tasks,
                   config, consumed, calls, cycle>>

\* a request fails (no connection, timeout): no callback runs
RequestFails ==
    /\ pc = "loop"
    /\ \E r \in BagToSet(inflight) : inflight' = inflight (-) SetToBag({r})
    /\ event' = [type |-> "request_failed"]
    /\ UNCHANGED <<written, pc, exit_status, error, log, gauges, counters, topics, highwater,
                   now_time, clock, tasks, config, consumed, calls, cycle>>

\* one message from "for message in consumer", l.241-272; an exception of
\* the body is no KeyboardInterrupt, so it leaves main (l.274)
ConsumeMessage ==
    /\ pc = "loop"
    /\ consumed < MaxMessages
    /\ \E message \in Messages :
          \E r \in {process_message(gauges, counters, message)} :
              /\ gauges' = r.gauges
              /\ counters' = r.counters
              /\ pc' = IF r.exc = "" THEN "loop" ELSE "crashed"
              /\ error' = r.exc
              /\ exit_status' = IF r.exc = "" THEN exit_status ELSE 1
              /\ event' = [type |-> "message", message |-> message]
    /\ consumed' = consumed + 1
    /\ UNCHANGED <<written, log, topics, highwater, now_time, clock, tasks, inflight, config,
                   calls, cycle>>

\* the consumer's iterator ends after consumer_timeout_ms without a message
\* (l.108); "while True" starts it again (l.240)
PollTimeout ==
    /\ pc = "loop"
    /\ event # [type |-> "poll_timeout"]
    /\ event' = [type |-> "poll_timeout"]
    /\ UNCHANGED <<written, pc, exit_status, error, log, gauges, counters, topics, highwater,
                   now_time, clock, tasks, inflight, config, consumed, calls, cycle>>

\* shutdown(), l.53-55
shutdown ==
    /\ log' = "Shutting down"
    /\ exit_status' = 1
    /\ pc' = "exited"

\* SIGTERM: signal_handler (l.58-59, installed l.63); SystemExit is caught nowhere
Sigterm ==
    /\ Running
    /\ shutdown
    /\ event' = [type |-> "SIGTERM"]
    /\ UNCHANGED <<written, error, gauges, counters, topics, highwater, now_time, clock, tasks,
                   inflight, config, consumed, calls, cycle>>

\* KeyboardInterrupt in the loop: l.274-277
KeyboardInterrupt ==
    /\ pc = "loop"
    /\ shutdown
    /\ event' = [type |-> "KeyboardInterrupt"]
    /\ UNCHANGED <<written, error, gauges, counters, topics, highwater, now_time, clock, tasks,
                   inflight, config, consumed, calls, cycle>>

\* KeyboardInterrupt at l.234-237, outside the try of l.239: it leaves main
KeyboardInterruptAtStartup ==
    /\ pc \in {"fetch_topics", "fetch_highwater"}
    /\ pc' = "crashed"
    /\ error' = "KeyboardInterrupt"
    /\ event' = [type |-> "KeyboardInterrupt"]
    /\ UNCHANGED <<written, exit_status, log, gauges, counters, topics, highwater, now_time, clock,
                   tasks, inflight, config, consumed, calls, cycle>>

Startup == StartFetchTopics \/ StartFetchHighwater

Signals == Sigterm \/ KeyboardInterrupt \/ KeyboardInterruptAtStartup

\* main on entering the loop at l.239: both periodic tasks have run once
\* (l.236-237), the metadata request is pending
LoopEntry ==
    /\ pc = "loop"
    /\ exit_status = -1
    /\ error = ""
    /\ log = "Requesting high-water marks"
    /\ gauges = << >>
    /\ counters = << >>
    /\ topics = << >>
    /\ highwater = << >>
    /\ now_time = 0
    /\ clock = 0
    /\ tasks = SetToBag({<<"fetch_topics", TopicsPeriod>>, <<"fetch_highwater", HighwaterPeriod>>})
    /\ inflight = SetToBag({[node |-> 1,
                             request |-> [name |-> "MetadataRequest", version |-> 0,
                                          topics |-> None],
                             callback |-> <<"update_topics", 0>>]})
    /\ config = [api_version |-> <<0, 9>>]
    /\ consumed = 0
    /\ event = [type |-> "fetch_highwater", this_time |-> 0, raised |-> FALSE]
    /\ calls = [fetch_topics |-> 1, fetch_highwater |-> 1]
    /\ cycle = [topics |-> << >>, sent |-> << >>, raised |-> FALSE]
    /\ written = NothingWritten

\* the offset stream consumer, from the loop's entry
NextConsumer == ConsumeMessage \/ PollTimeout \/ Sigterm \/ KeyboardInterrupt

SpecConsumer == LoopEntry /\ [][NextConsumer]_vars

\* the scheduler with the topology tracker and the highwater poller
NextPoller ==
    \/ Startup
    \/ Tick
    \/ RunFetchTopics
    \/ RunFetchHighwater
    \/ MetadataResponseArrives
    \/ OffsetResponseArrives
    \/ RequestFails

SpecPoller == Init /\ [][NextPoller]_vars

Next == NextConsumer \/ NextPoller \/ Signals

Spec == Init /\ [][Next]_vars

----------------------------------------------------------------------------
(* Properties of the offset stream consumer (SpecConsumer) *)

Samples(registry, metric_name) ==
    IF metric_name \in DOMAIN registry THEN registry[metric_name].samples ELSE << >>

OffsetGauge == Samples(gauges, METRIC_PREFIX \o "offset")

CommitCounter == Samples(counters, METRIC_PREFIX \o "commits")

\* this step consumed a message; event' holds it
Consumed == consumed' = consumed + 1

\* the buffer starts with a 2-byte version outside {0, 1}
UnrecognisedVersion(bytes) ==
    /\ Len(bytes) >= 2
    /\ \A v \in {0, 1} : SubSeq(bytes, 1, 2) # EncodeSigned(v, 2)

\* complete keys of version 0 or 1
DecodableKeys == {EncodeKey(v, G1, T1, p) : v \in {0, 1}, p \in CommitPartitions}

\* C1: a consumed message with key and value present whose key or value
\* decodes to none (version not recognised) is skipped: the group offset gauge
\* and the commit counter keep their samples, no error leaves the loop and
\* the loop goes on.
C1_UnrecognisedVersionSkipped ==
    [][(/\ Consumed
        /\ Truthy(event'.message.key) /\ Truthy(event'.message.value)
        /\ \/ UnrecognisedVersion(event'.message.key)
           \/ /\ event'.message.key \in DecodableKeys
              /\ UnrecognisedVersion(event'.message.value))
       => (/\ OffsetGauge' = OffsetGauge
           /\ CommitCounter' = CommitCounter
           /\ error' = ""
           /\ pc' = "loop")]_vars

\* C2: a message with a truncated key or a truncated value is dropped alone:
\* no group offset gauge or commit counter update, and the loop goes on.
C2_TruncatedRecordDropped ==
    [][(/\ Consumed
        /\ \/ /\ event'.message.key \in TruncatedKeys
              /\ Truthy(event'.message.value)
           \/ /\ event'.message.key \in DecodableKeys
              /\ event'.message.value \in TruncatedValues)
       => (/\ OffsetGauge' = OffsetGauge
           /\ CommitCounter' = CommitCounter
           /\ pc' = "loop")]_vars

\* C3: the loop ends only on a termination signal or an interrupt: whenever
\* main has left the loop, the last step was SIGTERM or KeyboardInterrupt.
C3_LoopEndsOnlyOnSignal ==
    ~Running => event.type \in {"SIGTERM", "KeyboardInterrupt"}

\* the commits whose key (version 0 or 1) and value (version 0 or 1) are
\* complete, with the partition and the offset they carry
CommitRecords ==
    {[key |-> EncodeKey(kv, G1, T1, p), value |-> EncodeValue(vv, o, << >>, 0, 1),
      partition |-> p, offset |-> o] :
        kv \in {0, 1}, p \in CommitPartitions, vv \in {0, 1}, o \in CommitOffsets}

\* C4: a consumed message whose key (version 0 or 1, group g, topic t,
\* partition p) and value (version 0 or 1, offset o) both decode sets the
\* series (g, t, p) of kafka_consumer_group_offset to o, adds exactly 1 to
\* the series (g, t, p) of kafka_consumer_group_commits and changes no other
\* series of the two metrics.
C4_CommitPublished ==
    [][\A c \in CommitRecords :
          (/\ Consumed
           /\ event'.message.key = c.key
           /\ event'.message.value = c.value)
          => (/\ OffsetGauge' = Put(OffsetGauge, <<G1, T1, c.partition>>, c.offset)
              /\ CommitCounter' =
                     Put(CommitCounter, <<G1, T1, c.partition>>,
                         (IF <<G1, T1, c.partition>> \in DOMAIN CommitCounter
                          THEN CommitCounter[<<G1, T1, c.partition>>] ELSE 0) + 1)
              /\ error' = ""
              /\ pc' = "loop")]_vars

\* the spec's end-to-end message (key version 1, value version 0, offset 42)
\* consumed twice
C4_Witness ==
    /\ event.type = "message"
    /\ event.message.key = GoodKey
    /\ event.message.value = GoodValue
    /\ Series(gauges, METRIC_PREFIX \o "offset", <<G1, T1, 0>>) = <<42>>
    /\ Series(counters, METRIC_PREFIX \o "commits", <<G1, T1, 0>>) = <<2>>
    /\ pc = "loop"

\* C5: after every consumed message, whatever its key and value and whatever
\* became of decoding them, the series of kafka_consumer_group_exporter_offset
\* for the message's partition holds the message's offset.
C5_ReadPositionPublished ==
    event.type = "message"
        => Series(gauges, METRIC_PREFIX \o "exporter_offset", <<event.message.partition>>)
               = <<event.message.offset>>

\* a message whose key is truncated: decoding raised, the position is published
C5_Witness ==
    /\ event.type = "message"
    /\ event.message.key \in TruncatedKeys
    /\ error = "struct.error"
    /\ Series(gauges, METRIC_PREFIX \o "exporter_offset", <<event.message.partition>>)
           = <<event.message.offset>>

----------------------------------------------------------------------------
(* Properties of the scheduler, the topology tracker and the highwater     *)
(* poller (SpecPoller)                                                     *)

PeriodOf(task) == IF task = "fetch_topics" THEN 30 ELSE 10

\* C6: every invocation of a periodic task, raising or not, schedules exactly
\* one next invocation of the same task at this_time + period (30 for
\* fetch_topics, 10 for fetch_highwater): after k invocations of a task the
\* queue holds exactly one entry of it, due at now_time + k * period, and the
\* k-th invocation ran with this_time = now_time + (k - 1) * period.
C6_RescheduledOncePerInvocation ==
    /\ \A task \in {"fetch_topics", "fetch_highwater"} :
          LET pending == {t \in BagToSet(tasks) : t[1] = task}
          IN  IF calls[task] = 0 THEN pending = {}
              ELSE /\ pending = {<<task, now_time + calls[task] * PeriodOf(task)>>}
                   /\ \A t \in pending : CopiesIn(t, tasks) = 1
    /\ event.type \in {"fetch_topics", "fetch_highwater"}
          => /\ event.this_time = now_time + (calls[event.type] - 1) * PeriodOf(event.type)
             /\ CopiesIn(<<event.type, event.this_time + PeriodOf(event.type)>>, tasks) = 1

\* the second topology refresh ran late and raised; the third is scheduled
C6_Witness ==
    /\ event.type = "fetch_topics"
    /\ event.raised
    /\ calls.fetch_topics = 2
    /\ clock > event.this_time
    /\ CopiesIn(<<"fetch_topics", now_time + 60>>, tasks) = 1

\* the (topic, partition, leader) triples of an assignment map
AssignmentTriples(tps) ==
    UNION {{<<tps[i][1], tps[i][2][j][1], tps[i][2][j][2]>> : j \in 1..Len(tps[i][2])} :
              i \in 1..Len(tps)}

\* the (topic, partition) pairs a request asks for
RequestedPairs(request) ==
    UNION {{<<request.topics[i][1], request.topics[i][2][k][1]>> :
               k \in 1..Len(request.topics[i][2])} : i \in 1..Len(request.topics)}

\* the number of partition entries of a request
RequestedCount(request) ==
    IF request.topics = << >> THEN 0
    ELSE Len(Flatten([i \in 1..Len(request.topics) |-> request.topics[i][2]]))

HighwaterEntry(hw, topic, partition) ==
    IF topic \in DOMAIN hw /\ partition \in DOMAIN hw[topic]
    THEN <<hw[topic][partition]>>
    ELSE None

HighwaterGauge(gs, topic, partition) ==
    Series(gs, METRIC_PREFIX \o "highwater", <<topic, partition>>)

\* the (topic, partition) pairs a response holds
ResponsePairs(offsets) ==
    UNION {{<<offsets.topics[i][1], offsets.topics[i][2][k][1]>> :
               k \in 1..Len(offsets.topics[i][2])} : i \in 1..Len(offsets.topics)}

\* C8: processing one highwater response changes only the Highwater Table
\* entries and highwater gauge series of the (topic, partition) pairs of that
\* response: every other entry and series, the Assignment Map, the counters
\* and the other gauges stay as they were.
C8_ResponseChangesOnlyItsPairs ==
    [][event'.type = "update_highwater"
       => /\ \A topic \in ClusterTopics, partition \in ClusterPartitions :
                <<topic, partition>> \notin ResponsePairs(event'.offsets)
                    => /\ HighwaterEntry(highwater', topic, partition)
                              = HighwaterEntry(highwater, topic, partition)
                       /\ HighwaterGauge(gauges', topic, partition)
                              = HighwaterGauge(gauges, topic, partition)
          /\ \A name \in (DOMAIN gauges') \ {METRIC_PREFIX \o "highwater"} :
                name \in DOMAIN gauges /\ gauges'[name] = gauges[name]
          /\ topics' = topics
          /\ counters' = counters]_vars

\* the spec's example: map {t1: {0: node 1, 1: node 2}}, node 1 answered 100
\* for (t1, 0), node 2 has not answered: partition 1 is unset
C8_Witness ==
    /\ event.type = "update_highwater"
    /\ topics = Assignment1
    /\ ResponsePairs(event.offsets) = {<<"t1", 0>>}
    /\ HighwaterEntry(highwater, "t1", 0) = <<100>>
    /\ HighwaterGauge(gauges, "t1", 0) = <<100>>
    /\ HighwaterEntry(highwater, "t1", 1) = None
    /\ HighwaterGauge(gauges, "t1", 1) = None

\* between steps the Highwater Table and the highwater gauge hold the same
\* (topic, partition) pairs with the same values
TableMatchesGauge ==
    \A topic \in ClusterTopics, partition \in ClusterPartitions :
        HighwaterEntry(highwater, topic, partition) = HighwaterGauge(gauges, topic, partition)

\* C9: after a highwater response has been processed, for every (topic,
\* partition, offset) entry of the response the Highwater Table entry and the
\* highwater gauge of (topic, partition) both equal that offset; and between
\* steps the table and the gauge hold the same pairs with the same values.
C9_ResponseEntriesPublished ==
    /\ event.type = "update_highwater"
          => \A i \in 1..Len(event.offsets.topics) :
                \A k \in 1..Len(event.offsets.topics[i][2]) :
                   LET topic == event.offsets.topics[i][1]
                       entry == event.offsets.topics[i][2][k]
                   IN  entry[3] # << >>
                          => /\ HighwaterEntry(highwater, topic, entry[1]) = <<entry[3][1]>>
                             /\ HighwaterGauge(gauges, topic, entry[1]) = <<entry[3][1]>>
    /\ TableMatchesGauge

\* C10: after a metadata response is processed the Assignment Map is exactly
\* the topic -> partition -> leader mapping the response carries: nothing of
\* the previous map remains.
C10_MapReplaced ==
    event.type = "update_topics" => topics = event.map

\* the last highwater cycle saw topics t2 and t1; the response processed
\* since carries t1 alone, and the map holds t1 alone
C10_Witness ==
    /\ event.type = "update_topics"
    /\ cycle.topics = Assignment3
    /\ event.map = Assignment1
    /\ topics = Assignment1

\* this step is an invocation of fetch_highwater; event' holds its this_time
HighwaterCycleRuns == calls'.fetch_highwater = calls.fetch_highwater + 1

\* C11: a highwater poll cycle that runs while the Assignment Map is empty
\* sends no request and changes neither the Assignment Map, the Highwater
\* Table nor any metric: it takes its own entry from the task queue, if it ran
\* from the queue, and schedules the next cycle at this_time + 10.
C11_EmptyMapCycleOnlyReschedules ==
    [][(HighwaterCycleRuns /\ topics = << >>)
       => (/\ inflight' = inflight
           /\ topics' = topics
           /\ highwater' = highwater
           /\ gauges' = gauges
           /\ counters' = counters
           /\ \/ tasks' = tasks (+) SetToBag({<<"fetch_highwater", event'.this_time + 10>>})
              \/ tasks' = (tasks (-) SetToBag({<<"fetch_highwater", event'.this_time>>}))
                               (+) SetToBag({<<"fetch_highwater", event'.this_time + 10>>}))]_vars

\* the second cycle ran from the queue with the map still empty (no metadata
\* response yet, or an empty one): nothing pending but the third cycle
C11_Witness ==
    /\ event.type = "fetch_highwater"
    /\ calls.fetch_highwater = 2
    /\ topics = << >>
    /\ cycle.sent = << >>
    /\ highwater = << >>
    /\ CopiesIn(<<"fetch_highwater", now_time + 20>>, tasks) = 1
    /\ CopiesIn(<<"fetch_highwater", now_time + 10>>, tasks) = 0

----------------------------------------------------------------------------
(* The metric store driven directly: update_gauge and increment_counter    *)
(* called with any metric name, label dict and value, as the spec's       *)
(* set_gauge and increment_counter are.  A label dict is an ordered dict.  *)

GaugeNames == {"g", "h"}

CounterNames == {"c"}

LabelDicts ==
    {<< >>,
     << <<"a", "1">> >>,
     << <<"a", "2">> >>,
     << <<"b", "1">> >>,
     << <<"a", "1">>, <<"b", "2">> >>,
     << <<"b", "2">>, <<"a", "1">> >>}

GaugeValues == {5, 3}

\* the label names the metric was registered with, None if it is not registered
Registered(registry, metric_name) ==
    IF metric_name \in DOMAIN registry THEN <<registry[metric_name].labelnames>> ELSE None

\* the call uses the label keys its metric name was first registered with
SameLabelKeys(registry, metric_name, label_dict) ==
    Registered(registry, metric_name) \in {None, <<LabelKeys(label_dict)>>}

\* a caller's update_gauge(metric_name, label_dict, value); an exception is
\* the caller's to handle
SetGauge ==
    /\ pc = "loop"
    /\ written.calls < MaxOps
    /\ \E metric_name \in GaugeNames, label_dict \in LabelDicts, value \in GaugeValues :
          \E r \in {update_gauge(gauges, metric_name, label_dict, value)} :
              /\ gauges' = r.val
              /\ event' = [type |-> "set_gauge", metric_name |-> metric_name,
                           label_dict |-> label_dict, value |-> value, exc |-> r.exc,
                           before |-> Series(gauges, metric_name, LabelValues(label_dict))]
              /\ written' = [written EXCEPT
                                !.calls = @ + 1,
                                !.consistent = @ /\ SameLabelKeys(gauges, metric_name, label_dict),
                                !.gauges = Put(@, <<metric_name, LabelValues(label_dict)>>, value)]
    /\ UNCHANGED <<pc, exit_status, error, log, counters, topics, highwater, now_time,
                   clock, tasks, inflight, config, consumed, calls, cycle>>

\* a caller's increment_counter(metric_name, label_dict)
IncrementCounter ==
    /\ pc = "loop"
    /\ written.calls < MaxOps
    /\ \E metric_name \in CounterNames, label_dict \in LabelDicts :
          \E r \in {increment_counter(counters, metric_name, label_dict)} :
              /\ counters' = r.val
              /\ event' = [type |-> "increment_counter", metric_name |-> metric_name,
                           label_dict |-> label_dict, exc |-> r.exc,
                           before |-> Series(counters, metric_name, LabelValues(label_dict))]
              /\ written' = [written EXCEPT
                                !.calls = @ + 1,
                                !.consistent = @ /\ SameLabelKeys(counters, metric_name, label_dict),
                                !.counters =
                                    LET series == <<metric_name, LabelValues(label_dict)>>
                                    IN  Put(@, series,
                                            (IF series \in DOMAIN @ THEN @[series] ELSE 0) + 1)]
    /\ UNCHANGED <<pc, exit_status, error, log, gauges, topics, highwater, now_time,
                   clock, tasks, inflight, config, consumed, calls, cycle>>

NextStore == SetGauge \/ IncrementCounter

SpecStore == LoopEntry /\ [][NextStore]_vars

----------------------------------------------------------------------------
(* Properties of the metric store (SpecStore) *)

\* this step is a call of the metric store; event' holds its arguments
StoreCall == written'.calls = written.calls + 1

\* the registry the call of this step works on
CalledRegistry == IF event'.type = "set_gauge" THEN gauges ELSE counters

\* C12: the first call for a metric name fixes the name's label keys; a
\* later call for the same name with other label keys (another number of
\* keys, other key names, or the same keys in another order) is rejected, and
\* every series keeps its value.
C12_OtherLabelKeysRejected ==
    [][(/\ StoreCall
        /\ ~SameLabelKeys(CalledRegistry, event'.metric_name, event'.label_dict))
       => (/\ event'.exc # ""
           /\ gauges' = gauges
           /\ counters' = counters)]_vars

\* the series of a registry whose metric names are in names
AllSeries(registry, names) ==
    {<<name, label_values>> : name \in names,
        label_values \in {LabelValues(label_dict) : label_dict \in LabelDicts}}

\* C13: as long as every call used the label keys its metric name was
\* registered with, each gauge series (name, label values) holds the value of
\* the last set_gauge call made for it and each counter series holds the
\* number of increment_counter calls made for it, and a series no call was
\* made for does not exist; so a call changes no series but its own and a
\* counter never decreases.
C13_LastWriteWinsAndCallsCounted ==
    written.consistent
        => /\ \A series \in AllSeries(gauges, GaugeNames) :
                 Series(gauges, series[1], series[2])
                     = IF series \in DOMAIN written.gauges
                       THEN <<written.gauges[series]>> ELSE None
           /\ \A series \in AllSeries(counters, CounterNames) :
                 Series(counters, series[1], series[2])
                     = IF series \in DOMAIN written.counters
                       THEN <<written.counters[series]>> ELSE None
           /\ event.type \in {"set_gauge", "increment_counter"} => event.exc = ""

\* the spec's example: series a="1" of g held 5 and was set to 3, while
\* series a="2" of g keeps its 5
C13_Witness ==
    /\ written.consistent
    /\ event.type = "set_gauge"
    /\ event.metric_name = "g"
    /\ event.label_dict = << <<"a", "1">> >>
    /\ event.before = <<5>>
    /\ event.value = 3
    /\ Series(gauges, "g", <<"1">>) = <<3>>
    /\ Series(gauges, "g", <<"2">>) = <<5>>

\* the spec's example: two calls of increment_counter for series a="1" of c
C13_WitnessCounter ==
    /\ written.consistent
    /\ event.type = "increment_counter"
    /\ event.before = <<1>>
    /\ Series(counters, "c", <<"1">>) = <<2>>

----------------------------------------------------------------------------
(* The wire decoder driven directly: parse_key and parse_value applied to  *)
(* buffers, as the spec's decode_key and decode_value are.                  *)

\* "", "g1", two characters of 2 and 3 UTF-8 bytes, one of 4 bytes
KeyGroups == {<< >>, G1, <<233, 8364>>, <<128512>>}

\* "t1", one character of 2 UTF-8 bytes
KeyTopics == {T1, <<233>>}

KeyPartitions == {0, 1, -1, 65536}

\* the fields of the keys of version 0 and 1
KeyFields == {0, 1} \X KeyGroups \X KeyTopics \X KeyPartitions

ValidKeys == {EncodeKey(k[1], k[2], k[3], k[4]) : k \in KeyFields}

\* complete values of version 1: offset, metadata, commit and expire timestamp
Version1Values ==
    {EncodeValue(1, o, m, c, c + 1) : o \in CommitOffsets, m \in {<< >>, M}, c \in {0, 7}}

\* a buffer without its last n bytes
CutTail(bytes, n) == SubSeq(bytes, 1, Len(bytes) - n)

\* values of version 1 that lack the expire timestamp, or a part of it
Version1ValuesWithoutExpire == {CutTail(bytes, n) : bytes \in Version1Values, n \in 1..8}

\* schema versions outside {0, 1}
OtherVersions == {2, -1, 256, 32767}

\* what may follow the version: nothing, stray bytes, the rest of a key or of
\* a value, complete or truncated
Tails ==
    {<< >>, <<255>>, <<0, 0>>}
        \cup {PySliceFrom(bytes, 2) : bytes \in {GoodKey, GoodValue} \cup Version1Values}
        \cup {PySliceFrom(bytes, 2) : bytes \in ProperPrefixes(GoodKey) \ {<<0>>}}

OtherVersionBuffers == {EncodeSigned(v, 2) \o tail : v \in OtherVersions, tail \in Tails}

\* the buffers given to parse_key
KeyBuffers ==
    ValidKeys \cup TruncatedKeys \cup {BadUtf8Key} \cup OtherVersionBuffers
        \cup WellFormedValues

\* the buffers given to parse_value; their 8-byte fields are small numbers
ValueBuffers ==
    Version1Values \cup Version1ValuesWithoutExpire \cup WellFormedValues
        \cup TruncatedValues \cup OtherVersionBuffers

ParseKey ==
    /\ pc = "loop"
    /\ \E bytes \in KeyBuffers :
          event' = [type |-> "parse_key", bytes |-> bytes, result |-> parse_key(bytes)]
    /\ UNCHANGED <<pc, exit_status, error, log, gauges, counters, topics, highwater,
                   now_time, clock, tasks, inflight, config, consumed, calls, cycle,
                   written>>

ParseValue ==
    /\ pc = "loop"
    /\ \E bytes \in ValueBuffers :
          event' = [type |-> "parse_value", bytes |-> bytes, result |-> parse_value(bytes)]
    /\ UNCHANGED <<pc, exit_status, error, log, gauges, counters, topics, highwater,
                   now_time, clock, tasks, inflight, config, consumed, calls, cycle,
                   written>>

NextDecoder == ParseKey \/ ParseValue

SpecDecoder == LoopEntry /\ [][NextDecoder]_vars

----------------------------------------------------------------------------
(* Properties of the wire decoder (SpecDecoder) *)

Decoded == event.type \in {"parse_key", "parse_value"}

\* C14: parse_key and parse_value return None, and raise nothing, for every
\* buffer that starts with a 2-byte schema version outside {0, 1}, whatever
\* bytes follow the version.
C14_OtherVersionIsNone ==
    (Decoded /\ UnrecognisedVersion(event.bytes)) => event.result = Returned(None)

\* version 32767 followed by the body of a truncated key, given to parse_key
C14_Witness ==
    /\ event.type = "parse_key"
    /\ event.bytes = EncodeSigned(32767, 2) \o <<0, 2, 103>>
    /\ event.result = Returned(None)

\* version 2 followed by the complete body of a value, given to parse_value
C14_WitnessValue ==
    /\ event.type = "parse_value"
    /\ event.bytes = EncodeValue(2, 42, << >>, 0, 1)
    /\ event.result = Returned(None)

\* C15: parse_key of the encoding of (version, group, topic, partition),
\* version 0 or 1, returns exactly (version, group, topic, partition).
C15_KeyRoundTrip ==
    \A k \in KeyFields :
        (event.type = "parse_key" /\ event.bytes = EncodeKey(k[1], k[2], k[3], k[4]))
            => event.result = Returned(k)

\* a key of version 0 with a group of two non-ASCII characters and
\* partition -1
C15_Witness ==
    /\ event.type = "parse_key"
    /\ event.bytes = <<0, 0>> \o <<0, 5, 195, 169, 226, 130, 172>> \o <<0, 2, 116, 49>>
                         \o <<255, 255, 255, 255>>
    /\ event.result = Returned(<<0, <<233, 8364>>, T1, -1>>)

\* C16: parse_value of a version-1 value that lacks its trailing 8-byte
\* expire timestamp, or any part of it, raises (struct.error): it returns no
\* record, neither of 4 nor of 5 fields.
C16_MissingExpireRaises ==
    (event.type = "parse_value" /\ event.bytes \in Version1ValuesWithoutExpire)
        => event.result = Raised("struct.error")

\* the value (version 1, offset 42, metadata "m", commit timestamp 0) cut
\* after the commit timestamp
C16_Witness ==
    /\ event.type = "parse_value"
    /\ event.bytes = CutTail(EncodeValue(1, 42, M, 0, 1), 8)
    /\ Len(event.bytes) = 21
    /\ event.result.exc = "struct.error"

----------------------------------------------------------------------------
(* Shutdown: main from start-up on, with the signals, the clock and the    *)
(* periodic tasks, without the responses and the messages                  *)

NextShutdown ==
    \/ Startup
    \/ Signals
    \/ Tick
    \/ PollTimeout
    \/ RunFetchTopics
    \/ RunFetchHighwater
    \/ RequestFails

SpecShutdown == Init /\ [][NextShutdown]_vars

\* C17: when SIGTERM or a keyboard interrupt is delivered, the process logs
\* the shutdown message and exits through sys.exit(1); no such shutdown ends
\* with status 0.
C17_SignalLogsAndExitsWithOne ==
    event.type \in {"SIGTERM", "KeyboardInterrupt"}
        => /\ pc = "exited"
           /\ log = "Shutting down"
           /\ exit_status = 1

----------------------------------------------------------------------------
(* Further properties of the highwater poller (SpecPoller) *)

\* the partition entries of the requests of a cycle, in the order sent, each
\* as (topic, partition, node the request went to)
RequestedTriples(sent) ==
    Flatten([i \in 1..Len(sent) |->
                Flatten([j \in 1..Len(sent[i][2].topics) |->
                            [k \in 1..Len(sent[i][2].topics[j][2]) |->
                                <<sent[i][2].topics[j][1], sent[i][2].topics[j][2][k][1],
                                  sent[i][1]>>]])])

\* C18: in a highwater poll cycle in which no send raises, every (topic,
\* partition) of the Assignment Map as it is when the cycle starts is
\* requested exactly once, in a request sent to the node the map names as the
\* partition's leader, and no partition outside the map is requested.
C18_EachPartitionAskedOnceOfItsLeader ==
    (calls.fetch_highwater > 0 /\ ~cycle.raised)
        => LET requested == RequestedTriples(cycle.sent)
           IN  /\ {requested[n] : n \in 1..Len(requested)} = AssignmentTriples(cycle.topics)
               /\ Len(requested) = Cardinality(AssignmentTriples(cycle.topics))

\* the spec's map {t1: {0: node 1, 1: node 2}}: partition 0 asked of node 1,
\* partition 1 of node 2
C18_Witness ==
    /\ event.type = "fetch_highwater"
    /\ cycle.topics = Assignment1
    /\ ~cycle.raised
    /\ RequestedTriples(cycle.sent) = << <<"t1", 0, 1>>, <<"t1", 1, 2>> >>

\* C19: a topology refresh changes neither the Highwater Table nor any gauge,
\* and no step removes a value: a (topic, partition) that has a Highwater
\* Table entry and a highwater gauge series has them in every later state,
\* also when the topic has left the Assignment Map.
C19_HighwaterOutlivesTopology ==
    [][/\ event'.type = "update_topics" => (highwater' = highwater /\ gauges' = gauges)
       /\ \A topic \in ClusterTopics, partition \in ClusterPartitions :
             /\ HighwaterEntry(highwater, topic, partition) # None
                   => HighwaterEntry(highwater', topic, partition) # None
             /\ HighwaterGauge(gauges, topic, partition) # None
                   => HighwaterGauge(gauges', topic, partition) # None]_vars

\* a refresh has replaced a map with topic t2 by the map of t1 alone: the
\* value of (t2, 0) is still in the table and still published
C19_Witness ==
    /\ event.type = "update_topics"
    /\ topics = Assignment1
    /\ HighwaterEntry(highwater, "t2", 0) = <<200>>
    /\ HighwaterGauge(gauges, "t2", 0) = <<200>>
    /\ HighwaterEntry(highwater, "t1", 0) = None

\* the requests pending whose answer goes to update_highwater
HighwaterRequestsPending == {r \in BagToSet(inflight) : r.callback[1] = "update_highwater"}

\* C20: no response callback runs before main enters the loop, so the first
\* highwater poll cycle, run at start-up right after the first topology
\* request, sees an empty Assignment Map and sends nothing; a highwater
\* request is sent only by a later cycle that saw a map a metadata response
\* had set, hence not before now_time + 10.
C20_NoHighwaterRequestBeforeTopology ==
    /\ pc \in {"fetch_topics", "fetch_highwater"}
          => (topics = << >> /\ highwater = << >> /\ HighwaterRequestsPending = {})
    /\ calls.fetch_highwater = 1
          => (cycle.topics = << >> /\ cycle.sent = << >> /\ HighwaterRequestsPending = {})
    /\ cycle.sent # << >>
          => (cycle.topics # << >> /\ calls.fetch_highwater >= 2)
    /\ (cycle.sent # << >> \/ HighwaterRequestsPending # {}) => clock >= now_time + 10

\* the metadata response came before now_time + 10 and the second cycle, run
\* at now_time + 10 sharp, has sent the first highwater requests
C20_Witness ==
    /\ event.type = "fetch_highwater"
    /\ calls.fetch_highwater = 2
    /\ cycle.sent # << >>
    /\ HighwaterRequestsPending # {}
    /\ clock = now_time + 10

====
